---- MODULE Spec2Model ----
(***************************************************************************)
(* The variable store of the Ion shell (src/lib/shell/variables/mod.rs)    *)
(* and the glue of its interactive binary (src/binary/mod.rs).             *)
(*                                                                         *)
(* Strings are sequences of one-character strings, so that starts_with,    *)
(* find("::") and slicing are computed the way the code computes them.     *)
(* usize arithmetic is kept modulo UsizeMod; a panic (index out of bounds, *)
(* slice out of range, overflow in a checked build) stops the process.     *)
(***************************************************************************)
EXTENDS Integers, Sequences, FiniteSets, TLC

(* ---- bounds of the model ---- *)
\* usize is modelled modulo UsizeMod; every length of the model is far below it
UsizeMod == 65536
\* new_scope and append_scopes are not taken when the scope list would hold more
\* than MaxDepth slots (MaxStackDepth, MaxSetDepth in the other specifications)
MaxDepth == 3
MaxStackDepth == 3
MaxSetDepth == 2
\* set and shadow are not taken when the store would hold more than MaxVars
\* entries that construction did not put there (MaxStackVars, MaxSetVars)
MaxVars == 2
MaxStackVars == 1
MaxSetVars == 1

(* ---- string literals of the source ---- *)
Str_GLOBAL_PREFIX ==
    <<"g", "l", "o", "b", "a", "l", ":", ":">>
Str_SUPER_PREFIX ==
    <<"s", "u", "p", "e", "r", ":", ":">>
Str_NS_SEP ==
    <<":", ":">>
Str_NS_PLUGINS ==
    <<"N", "S", "_", "P", "L", "U", "G", "I", "N", "S">>
Str_MWD ==
    <<"M", "W", "D">>
Str_SWD ==
    <<"S", "W", "D">>
Str_HOME ==
    <<"H", "O", "M", "E">>
Str_PWD ==
    <<"P", "W", "D">>
Str_HOST ==
    <<"H", "O", "S", "T">>
Str_DIRECTORY_STACK_SIZE ==
    <<"D", "I", "R", "E", "C", "T", "O", "R", "Y", "_", "S", "T", "A", "C", "K", "_", "S", "I", "Z", "E">>
Str_HISTORY_SIZE ==
    <<"H", "I", "S", "T", "O", "R", "Y", "_", "S", "I", "Z", "E">>
Str_HISTFILE_SIZE ==
    <<"H", "I", "S", "T", "F", "I", "L", "E", "_", "S", "I", "Z", "E">>
Str_PROMPT ==
    <<"P", "R", "O", "M", "P", "T">>
Str_PID ==
    <<"P", "I", "D">>
Str_UID ==
    <<"U", "I", "D">>
Str_EUID ==
    <<"E", "U", "I", "D">>
Str_HISTFILE ==
    <<"H", "I", "S", "T", "F", "I", "L", "E">>
Str_HISTFILE_ENABLED ==
    <<"H", "I", "S", "T", "F", "I", "L", "E", "_", "E", "N", "A", "B", "L", "E", "D">>
Str_HISTORY_IGNORE ==
    <<"H", "I", "S", "T", "O", "R", "Y", "_", "I", "G", "N", "O", "R", "E">>
Str_PROMPT_TEMPLATE ==
    <<"$", "{", "x", ":", ":", "1", "B", "}", "]", "0", ";", "$", "{", "U", "S", "E", "R", "}", ":", " ", "$", "{", "P", "W", "D", "}", "$", "{", "x", ":", ":", "0", "7", "}", "$", "{", "c", ":", ":", "0", "x", "5", "5", ",", "b", "o", "l", "d", "}", "$", "{", "U", "S", "E", "R", "}", "$", "{", "c", ":", ":", "d", "e", "f", "a", "u", "l", "t", "}", ":", "$", "{", "c", ":", ":", "0", "x", "4", "B", "}", "$", "{", "S", "W", "D", "}", "$", "{", "c", ":", ":", "d", "e", "f", "a", "u", "l", "t", "}", "#", " ", "$", "{", "c", ":", ":", "r", "e", "s", "e", "t", "}">>

(* ---- Option, and the value model (enum VariableType) ---- *)
Some(v) == [tag |-> "Some", val |-> v]
None == [tag |-> "None"]

VariableType(kind, payload) == [kind |-> kind, val |-> payload]
StrV(s) == VariableType("Str", s)
AliasV(s) == VariableType("Alias", s)
ArrayV(a) == VariableType("Array", a)
HashMapV(m) == VariableType("HashMap", m)
BTreeMapV(m) == VariableType("BTreeMap", m)
FunctionV(f) == VariableType("Function", f)

\* The payload of a string or an alias is its characters; of an array, its
\* elements; of a map, its entries in key order, each written "key=value"; of a
\* function, its name.  String::is_empty, Array::is_empty, HashMap::is_empty:
is_empty(var) == Len(var.val) = 0

(* ---- str helpers ---- *)
starts_with(s, p) == Len(s) >= Len(p) /\ SubSeq(s, 1, Len(p)) = p
\* &s[n..]
slice_from(s, n) == SubSeq(s, n + 1, Len(s))
\* str::find: the 0-based index of the first occurrence of p in s
find(s, p) ==
    LET hits == {i \in 0..(Len(s) - Len(p)) : SubSeq(s, i + 1, i + Len(p)) = p}
    IN  IF hits = {} THEN None
        ELSE Some(CHOOSE i \in hits : \A j \in hits : i <= j)

(* ---- Scope, and the maps it derefs to ---- *)
EmptyMap == [k \in {} |-> None]
Scope(vars, namespace) == [vars |-> vars, namespace |-> namespace]
contains_key(map, k) == k \in DOMAIN map
insert(map, k, v) == [x \in DOMAIN map \cup {k} |-> IF x = k THEN v ELSE map[x]]
remove(map, k) == [x \in DOMAIN map \ {k} |-> map[x]]

(* ---- the host the store is constructed on ---- *)
\* getpid(), getuid() and geteuid() succeed; is_root() is euid = 0
Sys_pid == <<"7">>
Sys_uid(isRoot) == IF isRoot THEN <<"0">> ELSE <<"1", "0", "0", "0">>
\* BaseDirectories::with_prefix("ion") and place_data_file("history") succeed
Sys_histfile == <<"/", "r", "/", "i", "o", "n", "/", "h", "i", "s", "t", "o", "r", "y">>
Sys_home == <<"/", "r">>
Sys_host == <<"h">>

\* impl Default for Variables: the map of the global scope
DefaultVars(isRoot) ==
    (Str_DIRECTORY_STACK_SIZE :> StrV(<<"1", "0", "0", "0">>))
    @@ (Str_HISTORY_SIZE :> StrV(<<"1", "0", "0", "0">>))
    @@ (Str_HISTFILE_SIZE :> StrV(<<"1", "0", "0", "0", "0", "0">>))
    @@ (Str_PROMPT :> StrV(Str_PROMPT_TEMPLATE))
    @@ (Str_PID :> StrV(Sys_pid))
    @@ (Str_UID :> StrV(Sys_uid(isRoot)))
    @@ (Str_EUID :> StrV(Sys_uid(isRoot)))
    @@ (Str_HISTFILE :> StrV(Sys_histfile))
    @@ (Str_HISTFILE_ENABLED :> StrV(<<"1">>))
    @@ (Str_HISTORY_IGNORE :> ArrayV(<<"no_such_command", "whitespace", "duplicates">>))

\* impl Default for Variables: env::set_var("HOME", ..), env::set_var("HOST", ..)
DefaultEnv(inherited) ==
    [n \in DOMAIN inherited \cup {Str_HOME, Str_HOST} |->
        IF n = Str_HOME THEN Sys_home
        ELSE IF n = Str_HOST THEN Sys_host
        ELSE inherited[n]]

\* const PLUGIN: u8 = 1
PLUGIN == 1

(* ---- the store: struct Variables { flags, scopes, current } ---- *)
VARIABLES
    scopes,     \* Vec<Scope>; scopes[i + 1] is the slot of index i
    current,    \* usize, the index of the innermost active scope
    flags,      \* u8
    env,        \* the process environment
    root,       \* what is_root() answers
    saved,      \* the scopes the caller holds from its last pop_scopes
    panicked,   \* the process panicked in its last call
    last,       \* the last call made on the store
    context,    \* InteractiveBinary.context: the editor's history and key bindings
    shell,      \* InteractiveBinary.shell, but for its variables
    lines,      \* the lines the main loop has read for the command in progress
    events      \* what the last handler of the driver did to its collaborators

binary == <<context, shell, lines, events>>
vars == <<scopes, current, flags, env, root, saved, panicked, last, context, shell,
          lines, events>>

Store(sc, cur, fl) == [scopes |-> sc, current |-> cur, flags |-> fl, panic |-> FALSE]
Panic(st) == [st EXCEPT !.panic = TRUE]
Self == Store(scopes, current, flags)

\* Variables::scopes / scopes_mut: the indices the iterator yields, in order;
\* amount = len - current - 1 in usize, then iter().rev().skip(amount)
scopes_iter(sc, cur) ==
    LET len == Len(sc)
        amount == (len - cur - 1) % UsizeMod
    IN  IF amount >= len THEN << >>
        ELSE [i \in 1..(len - amount) |-> len - amount - i]

\* Variables::new_scope
new_scope(st, namespace) ==
    LET cur == (st.current + 1) % UsizeMod
    IN  IF cur >= Len(st.scopes)
        THEN [st EXCEPT !.current = cur,
                        !.scopes = Append(st.scopes, Scope(EmptyMap, namespace))]
        ELSE [st EXCEPT !.current = cur,
                        !.scopes[cur + 1].namespace = namespace]

\* pop_scope that leaves the bindings of the scope it leaves
pop_scope_uncleared(st) ==
    IF st.current >= Len(st.scopes) THEN {Panic(st)}
    ELSE IF st.current = 0
         THEN {Panic(st), [st EXCEPT !.current = UsizeMod - 1]}
         ELSE {[st EXCEPT !.current = st.current - 1]}

\* Variables::pop_scope: the outcomes of the call.  self.scopes[self.current]
\* panics out of bounds; self.current -= 1 at 0 panics in a build with overflow
\* checks and wraps in a build without them.
pop_scope(st) ==
    IF st.current >= Len(st.scopes) THEN {Panic(st)}
    ELSE LET cleared == [st EXCEPT !.scopes[st.current + 1].vars = EmptyMap]
         IN  IF st.current = 0
             THEN {Panic(cleared), [cleared EXCEPT !.current = UsizeMod - 1]}
             ELSE {[cleared EXCEPT !.current = st.current - 1]}

\* Variables::pop_scopes: self.current = index, then drain(index+1..), which
\* panics when index + 1 > len.  yield is what the iterator hands to the caller.
pop_scopes(st, index) ==
    LET moved == [st EXCEPT !.current = index]
    IN  IF index + 1 > Len(st.scopes)
        THEN [store |-> Panic(moved), yield |-> << >>]
        ELSE [store |-> [moved EXCEPT !.scopes = SubSeq(st.scopes, 1, index + 1)],
              yield |-> SubSeq(st.scopes, index + 2, Len(st.scopes))]

\* Variables::append_scopes
append_scopes(st, scs) ==
    LET start == (st.current + 1) % UsizeMod
    IN  IF start > Len(st.scopes) THEN Panic(st)
        ELSE [st EXCEPT !.scopes = SubSeq(st.scopes, 1, start) \o scs,
                        !.current = (st.current + Len(scs)) % UsizeMod]

\* Variables::shadow
shadow(st, name, value) ==
    IF st.current >= Len(st.scopes) THEN Panic(st)
    ELSE [st EXCEPT !.scopes[st.current + 1].vars = insert(@, name, value)]

(* ---- lookup ---- *)
\* strip_super that strips the prefixes and forgets to count them
RECURSIVE strip_super_uncounted(_, _)
strip_super_uncounted(name, up_namespace) ==
    IF starts_with(name, Str_SUPER_PREFIX)
    THEN strip_super_uncounted(slice_from(name, Len(Str_SUPER_PREFIX)), up_namespace)
    ELSE [name |-> name, up_namespace |-> up_namespace]

\* the while loop of get_ref: strip every leading "super::", counting them
RECURSIVE strip_super(_, _)
strip_super(name, up_namespace) ==
    IF starts_with(name, Str_SUPER_PREFIX)
    THEN strip_super(slice_from(name, Len(Str_SUPER_PREFIX)), up_namespace + 1)
    ELSE [name |-> name, up_namespace |-> up_namespace]

\* qualifier that counts the namespace flags of every slot, active or not
qualifier_all_slots(sc, cur, name) ==
    IF starts_with(name, Str_GLOBAL_PREFIX)
    THEN [name |-> slice_from(name, Len(Str_GLOBAL_PREFIX)),
          up_namespace |-> Cardinality({j \in DOMAIN sc : sc[j].namespace})]
    ELSE strip_super(name, 0)

\* get_ref, lines 304-316: the stripped name and the climb count
qualifier(sc, cur, name) ==
    IF starts_with(name, Str_GLOBAL_PREFIX)
    THEN [name |-> slice_from(name, Len(Str_GLOBAL_PREFIX)),
          up_namespace |->
              Cardinality({j \in DOMAIN scopes_iter(sc, cur) :
                              sc[scopes_iter(sc, cur)[j] + 1].namespace})]
    ELSE strip_super(name, 0)

\* get_ref_walk that holds a function to the climb count like any other entry
RECURSIVE get_ref_walk_functions_counted(_, _, _, _)
get_ref_walk_functions_counted(sc, idxs, name, up_namespace) ==
    IF idxs = << >> THEN None
    ELSE LET i == Head(idxs)
             scope == sc[i + 1]
         IN  IF contains_key(scope.vars, name) /\ up_namespace = 0
             THEN Some([index |-> i, key |-> name])
             ELSE get_ref_walk_functions_counted(sc, Tail(idxs), name,
                                                 IF scope.namespace THEN up_namespace - 1
                                                 ELSE up_namespace)

\* get_ref_walk that does not lower the climb count at a namespace scope
RECURSIVE get_ref_walk_no_boundary(_, _, _, _)
get_ref_walk_no_boundary(sc, idxs, name, up_namespace) ==
    IF idxs = << >> THEN None
    ELSE LET i == Head(idxs)
             scope == sc[i + 1]
         IN  IF /\ contains_key(scope.vars, name)
                /\ (scope.vars[name].kind = "Function" \/ up_namespace = 0)
             THEN Some([index |-> i, key |-> name])
             ELSE get_ref_walk_no_boundary(sc, Tail(idxs), name, up_namespace)

\* get_ref, lines 317-327: the walk over self.scopes(); the result is the
\* place of the entry the returned reference points to
RECURSIVE get_ref_walk(_, _, _, _)
get_ref_walk(sc, idxs, name, up_namespace) ==
    IF idxs = << >> THEN None
    ELSE LET i == Head(idxs)
             scope == sc[i + 1]
         IN  IF /\ contains_key(scope.vars, name)
                /\ (scope.vars[name].kind = "Function" \/ up_namespace = 0)
             THEN Some([index |-> i, key |-> name])
             ELSE get_ref_walk(sc, Tail(idxs), name,
                               IF scope.namespace THEN up_namespace - 1
                               ELSE up_namespace)

get_ref_place(sc, cur, name) ==
    LET q == qualifier(sc, cur, name)
    IN  get_ref_walk(sc, scopes_iter(sc, cur), q.name, q.up_namespace)

\* what a reference to a place reads
deref(sc, place) ==
    IF place = None THEN None
    ELSE Some(sc[place.val.index + 1].vars[place.val.key])

\* Variables::get_ref
get_ref(sc, cur, name) == deref(sc, get_ref_place(sc, cur, name))

\* get_mut, lines 335-344: the walk over self.scopes_mut()
RECURSIVE get_mut_walk_no_boundary(_, _, _)
get_mut_walk_no_boundary(sc, idxs, name) ==
    IF idxs = << >> THEN None
    ELSE IF contains_key(sc[Head(idxs) + 1].vars, name)
         THEN Some([index |-> Head(idxs), key |-> name])
         ELSE get_mut_walk_no_boundary(sc, Tail(idxs), name)
RECURSIVE get_mut_walk(_, _, _)
get_mut_walk(sc, idxs, name) ==
    IF idxs = << >> THEN None
    ELSE LET i == Head(idxs)
             scope == sc[i + 1]
         IN  IF contains_key(scope.vars, name) THEN Some([index |-> i, key |-> name])
             ELSE IF scope.namespace THEN None
             ELSE get_mut_walk(sc, Tail(idxs), name)

\* Variables::get_mut: the place of the entry the returned reference points to
get_mut_place(sc, cur, name) ==
    IF starts_with(name, Str_SUPER_PREFIX) \/ starts_with(name, Str_GLOBAL_PREFIX)
    THEN None
    ELSE get_mut_walk(sc, scopes_iter(sc, cur), name)

get_mut(sc, cur, name) == deref(sc, get_mut_place(sc, cur, name))

\* remove_variable, lines 348-352: the first scope of self.scopes_mut() whose
\* remove(name) yields an entry
RECURSIVE remove_variable_walk(_, _, _)
remove_variable_walk(sc, idxs, name) ==
    IF idxs = << >> THEN None
    ELSE IF contains_key(sc[Head(idxs) + 1].vars, name) THEN Some(Head(idxs))
    ELSE remove_variable_walk(sc, Tail(idxs), name)

\* Variables::remove_variable: the store after the call
remove_variable(st, name) ==
    LET found == remove_variable_walk(st.scopes, scopes_iter(st.scopes, st.current), name)
    IN  IF found = None THEN st
        ELSE [st EXCEPT !.scopes[found.val + 1].vars = remove(@, name)]

\* Variables::remove_variable: the entry the call returns
remove_variable_result(st, name) ==
    LET found == remove_variable_walk(st.scopes, scopes_iter(st.scopes, st.current), name)
    IN  IF found = None THEN None
        ELSE Some(st.scopes[found.val + 1].vars[name])

\* Variables::aliases: the entries self.scopes.iter() yields that hold an
\* alias, each with the index of its slot
aliases(sc) ==
    UNION {{[index |-> i - 1, key |-> k, val |-> sc[i].vars[k].val] :
               k \in {key \in DOMAIN sc[i].vars : sc[i].vars[key].kind = "Alias"}} :
           i \in DOMAIN sc}

\* Variables::functions
functions(sc) ==
    UNION {{[index |-> i - 1, key |-> k, val |-> sc[i].vars[k].val] :
               k \in {key \in DOMAIN sc[i].vars : sc[i].vars[key].kind = "Function"}} :
           i \in DOMAIN sc}

\* Variables::arrays
arrays(sc) ==
    UNION {{[index |-> i - 1, key |-> k, val |-> sc[i].vars[k].val] :
               k \in {key \in DOMAIN sc[i].vars : sc[i].vars[key].kind = "Array"}} :
           i \in DOMAIN sc}

(* ---- flags ---- *)
has_plugin_support(fl) == (fl \div PLUGIN) % 2 = 1
disable_plugins(st) ==
    [st EXCEPT !.flags = IF has_plugin_support(@) THEN @ - PLUGIN ELSE @]
enable_plugins(st) ==
    [st EXCEPT !.flags = IF has_plugin_support(@) THEN @ ELSE @ + PLUGIN]

(* ---- assignment ---- *)
\* mem::replace(slot, var) through the reference get_mut returned
replace_dropped(st, place, var) == st
replace(st, place, var) ==
    [st EXCEPT !.scopes[place.index + 1].vars[place.key] = var]

\* Variables::set
set(st, name, var) ==
    LET place == get_mut_place(st.scopes, st.current, name)
        found == deref(st.scopes, place)
        kind == IF found = None THEN "None" ELSE found.val.kind
    IN  IF kind = "Str" THEN
            IF name = << >> THEN st
            ELSE IF var.kind = "Str" THEN
                IF is_empty(var) THEN remove_variable(st, name)
                ELSE IF name = Str_NS_PLUGINS THEN
                    IF var.val = <<"0">> THEN disable_plugins(st)
                    ELSE IF var.val = <<"1">> THEN enable_plugins(st)
                    ELSE st
                ELSE replace(st, place.val, var)
            ELSE shadow(st, name, var)
        ELSE IF kind \in {"Alias", "Function"} THEN
            IF name = << >> THEN st
            ELSE IF var.kind = kind THEN replace(st, place.val, var)
            ELSE shadow(st, name, var)
        ELSE IF kind \in {"Array", "HashMap"} THEN
            IF name = << >> THEN st
            ELSE IF var.kind = kind THEN
                IF is_empty(var) THEN remove_variable(st, name)
                ELSE replace(st, place.val, var)
            ELSE shadow(st, name, var)
        ELSE shadow(st, name, var)

(* ---- typed retrieval ---- *)
\* env::var
env_var_unset(e, name) == None
env_var(e, name) == IF name \in DOMAIN e THEN Some(e[name]) ELSE None

\* str::replace: every non-overlapping match, left to right; an empty pattern
\* matches before every character and at the end
RECURSIVE str_replace(_, _, _)
str_replace(s, from, to) ==
    IF Len(from) = 0
    THEN (IF Len(s) = 0 THEN to ELSE to \o <<Head(s)>> \o str_replace(Tail(s), from, to))
    ELSE IF Len(s) = 0 THEN << >>
    ELSE IF starts_with(s, from)
         THEN to \o str_replace(slice_from(s, Len(from)), from, to)
         ELSE <<Head(s)>> \o str_replace(Tail(s), from, to)

\* str::split(c) followed by filter(|s| !s.is_empty())
RECURSIVE split_nonempty(_, _, _)
split_nonempty(s, c, acc) ==
    IF Len(s) = 0 THEN (IF Len(acc) = 0 THEN << >> ELSE <<acc>>)
    ELSE IF Head(s) = c
         THEN (IF Len(acc) = 0 THEN << >> ELSE <<acc>>) \o split_nonempty(Tail(s), c, << >>)
         ELSE split_nonempty(Tail(s), c, Append(acc, Head(s)))

RECURSIVE minimal_prefix(_)
\* get_minimal_directory, lines 674-682: the loop over all elements but the last;
\* a grapheme of the model is one character
minimal_prefix(elements) ==
    IF Len(elements) = 0 THEN Some(<< >>)
    ELSE LET element == Head(elements)
             rest == minimal_prefix(Tail(elements))
         IN  IF Len(element) = 0 THEN [tag |-> "Panic"]
             ELSE IF element[1] = "." /\ Len(element) < 2 THEN [tag |-> "Panic"]
             ELSE IF rest.tag # "Some" THEN rest
             ELSE Some((IF element[1] = "." THEN <<element[1], element[2]>>
                        ELSE <<element[1]>>) \o <<"/">> \o rest.val)

\* the digits u8::from_str_radix(_, 16) accepts
HexDigit ==
    [c \in {"0", "1", "2", "3", "4", "5", "6", "7", "8", "9",
            "a", "b", "c", "d", "e", "f", "A", "B", "C", "D", "E", "F"} |->
        CASE c = "0" -> 0 [] c = "1" -> 1 [] c = "2" -> 2 [] c = "3" -> 3
          [] c = "4" -> 4 [] c = "5" -> 5 [] c = "6" -> 6 [] c = "7" -> 7
          [] c = "8" -> 8 [] c = "9" -> 9
          [] c \in {"a", "A"} -> 10 [] c \in {"b", "B"} -> 11
          [] c \in {"c", "C"} -> 12 [] c \in {"d", "D"} -> 13
          [] c \in {"e", "E"} -> 14 [] c \in {"f", "F"} -> 15]

RECURSIVE hex_digits(_, _)
hex_digits(s, acc) ==
    IF Len(s) = 0 THEN Some(acc)
    ELSE IF Head(s) \notin DOMAIN HexDigit THEN None
    ELSE IF acc * 16 + HexDigit[Head(s)] > 255 THEN None
    ELSE hex_digits(Tail(s), acc * 16 + HexDigit[Head(s)])

\* u8::from_str_radix(variable, 16): one optional '+', then at least one digit
u8_from_str_radix_16(variable) ==
    LET digits == IF Len(variable) > 0 /\ Head(variable) = "+" THEN Tail(variable)
                  ELSE variable
    IN  IF Len(digits) = 0 THEN None ELSE hex_digits(digits, 0)

\* (c as char).to_string(): the character of a code, named by the code when the
\* alphabet of the model has no letter for it
char_to_string(c) ==
    IF c = 48 THEN <<"0">> ELSE IF c = 49 THEN <<"1">>
    ELSE IF c = 97 THEN <<"a">> ELSE IF c = 120 THEN <<"x">>
    ELSE <<"chr" \o ToString(c)>>

\* Colors::collect(variable).into_string(): the escape sequence of a colour list
Colors_collect(variable) ==
    IF Len(variable) = 0 THEN None ELSE Some(<<"ESC", "[">> \o variable \o <<"m">>)

\* STRING_NAMESPACES = namespaces::collect(): the plugin namespaces, by identifier
STRING_NAMESPACES == {<<"g", "i", "t">>}

\* StringNamespace::execute
namespace_execute(namespace, variable) == Some(namespace \o <<"(">> \o variable \o <<")">>)

RECURSIVE get(_, _, _, _, _)

\* Variables::get_simplified_directory
get_simplified_directory(st, e, isRoot) ==
    LET string == get("Str", st, e, isRoot, Str_HOME)
        home == IF string.tag = "Some" THEN string.val ELSE <<"?">>
        pwd == env_var(e, Str_PWD)
    IN  IF string.tag = "Panic" \/ pwd = None THEN [tag |-> "Panic"]
        ELSE Some(str_replace(pwd.val, home, <<"~">>))

\* Variables::get_minimal_directory
get_minimal_directory(st, e, isRoot) ==
    LET swd == get_simplified_directory(st, e, isRoot)
    IN  IF swd.tag = "Panic" THEN swd
        ELSE LET elements == split_nonempty(swd.val, "/", << >>)
             IN  IF Len(elements) > 2
                 THEN LET output == minimal_prefix(SubSeq(elements, 1, Len(elements) - 1))
                      IN  IF output.tag = "Panic" THEN output
                          ELSE Some(output.val \o elements[Len(elements)])
                 ELSE swd

\* Variables::get::<T>; T is the kind of the carrier.  The results are
\* Some(payload), None, and a panic of the call.
get(T, st, e, isRoot, name) ==
    IF T = "Str" THEN
        IF name = Str_MWD THEN get_minimal_directory(st, e, isRoot)
        ELSE IF name = Str_SWD THEN get_simplified_directory(st, e, isRoot)
        ELSE
            LET pos == find(name, Str_NS_SEP)
                ns == IF pos = None THEN << >> ELSE SubSeq(name, 1, pos.val)
                variable == IF pos = None THEN << >> ELSE slice_from(name, pos.val + 2)
                found == get_ref(st.scopes, st.current, name)
            IN  IF pos # None /\ ns \in {<<"c">>, <<"c", "o", "l", "o", "r">>}
                THEN Colors_collect(variable)
                ELSE IF pos # None /\ ns \in {<<"x">>, <<"h", "e", "x">>}
                THEN (LET c == u8_from_str_radix_16(variable)
                      IN  IF c = None THEN None ELSE Some(char_to_string(c.val)))
                ELSE IF pos # None /\ ns = <<"e", "n", "v">>
                THEN env_var(e, variable)
                ELSE IF \/ pos = None
                        \/ ns \in {<<"s", "u", "p", "e", "r">>, <<"g", "l", "o", "b", "a", "l">>}
                THEN (IF found # None /\ found.val.kind = "Str" THEN Some(found.val.val)
                      ELSE env_var(e, name))
                ELSE IF isRoot THEN None
                ELSE IF ~has_plugin_support(st.flags) THEN None
                ELSE IF name \in STRING_NAMESPACES
                THEN namespace_execute(name, variable)
                ELSE None
    ELSE IF T \in {"Alias", "Array", "HashMap", "BTreeMap", "Function"} THEN
        LET found == get_ref(st.scopes, st.current, name)
        IN  IF found # None /\ found.val.kind = T THEN Some(found.val.val) ELSE None
    ELSE None

\* Variables::get_str_or_empty: get::<String>(name).unwrap_or_default()
get_str_or_empty(st, e, isRoot, name) ==
    LET found == get("Str", st, e, isRoot, name)
    IN  IF found = None THEN << >>
        ELSE IF found.tag = "Some" THEN found.val
        ELSE found

(* ---- tilde expansion ---- *)
Str_OLDPWD ==
    <<"O", "L", "D", "P", "W", "D">>

\* self_sys::get_user_home: the user database of the host knows one user
Sys_user_home(user) ==
    IF user = <<"u">> THEN Some(<<"/", "h", "/", "u">>) ELSE None

\* the decimal digits str::parse::<usize> accepts
DecDigit ==
    [c \in {"0", "1", "2", "3", "4", "5", "6", "7", "8", "9"} |-> HexDigit[c]]

RECURSIVE dec_digits(_, _)
dec_digits(s, acc) ==
    IF Len(s) = 0 THEN Some(acc)
    ELSE IF Head(s) \notin DOMAIN DecDigit THEN None
    ELSE IF acc * 10 + DecDigit[Head(s)] >= UsizeMod THEN None
    ELSE dec_digits(Tail(s), acc * 10 + DecDigit[Head(s)])

\* tilde_num.parse::<usize>(): one optional '+', then at least one digit
parse_usize(tilde_num) ==
    LET digits == IF Len(tilde_num) > 0 /\ Head(tilde_num) = "+" THEN Tail(tilde_num)
                  ELSE tilde_num
    IN  IF Len(digits) = 0 THEN None ELSE dec_digits(digits, 0)

\* DirectoryStack::dir_from_top, dir_from_bottom: the stack, its top first
dir_from_top(dir_stack, num) ==
    IF num < Len(dir_stack) THEN Some(dir_stack[num + 1]) ELSE None
dir_from_bottom(dir_stack, num) ==
    IF num < Len(dir_stack) THEN Some(dir_stack[Len(dir_stack) - num]) ELSE None

\* Variables::tilde_expansion.  The results are Some(path), None, and a panic
\* of the call (a slice &word[1..ind] with ind = 0, &word[1..] of "").
tilde_expansion(st, e, isRoot, word, dir_stack) ==
    LET seps == {i \in 1..Len(word) : word[i] \in {"/", "$"}}
        ind == IF seps = {} THEN Len(word)
               ELSE (CHOOSE i \in seps : \A j \in seps : i <= j) - 1
        tilde_prefix == SubSeq(word, 2, ind)
        remainder == SubSeq(word, ind + 1, Len(word))
        neg == starts_with(tilde_prefix, <<"-">>)
        tilde_num == IF starts_with(tilde_prefix, <<"+">>) \/ neg
                     THEN Tail(tilde_prefix) ELSE tilde_prefix
        num == parse_usize(tilde_num)
        res == IF neg THEN dir_from_top(dir_stack, num.val)
               ELSE dir_from_bottom(dir_stack, num.val)
        oldpwd == get("Str", st, e, isRoot, Str_OLDPWD)
        home == Sys_user_home(tilde_prefix)
    IN  IF ind < 1 THEN [tag |-> "Panic"]
        ELSE IF tilde_prefix = << >> THEN Some(Sys_home \o remainder)
        ELSE IF tilde_prefix = <<"+">> THEN
            (IF Str_PWD \in DOMAIN e THEN Some(e[Str_PWD] \o remainder)
             ELSE Some(<<"?">> \o remainder))
        ELSE IF tilde_prefix = <<"-">> THEN
            (IF oldpwd = None THEN None ELSE Some(oldpwd.val \o remainder))
        ELSE IF num # None THEN res
        ELSE IF home # None THEN Some(home.val \o remainder)
        ELSE None

(* ---- map references ---- *)
\* str::split(c): the pieces between the occurrences of c, empty ones included
RECURSIVE split(_, _, _)
split(s, c, acc) ==
    IF Len(s) = 0 THEN <<acc>>
    ELSE IF Head(s) = c THEN <<acc>> \o split(Tail(s), c, << >>)
    ELSE split(Tail(s), c, Append(acc, Head(s)))

ends_with(s, p) == Len(s) >= Len(p) /\ SubSeq(s, Len(s) - Len(p) + 1, Len(s)) = p

\* str::trim_matches: the characters of pat taken off both ends
RECURSIVE trim_matches(_, _)
trim_matches_kept(s, pat) == s
trim_matches(s, pat) ==
    IF Len(s) = 0 THEN s
    ELSE IF Head(s) \in pat THEN trim_matches(Tail(s), pat)
    ELSE IF s[Len(s)] \in pat THEN trim_matches(SubSeq(s, 1, Len(s) - 1), pat)
    ELSE s

\* Variables::is_valid_variable_character; char::is_alphanumeric over the
\* letters and digits of the model
is_valid_variable_character(c) ==
    \/ c \in {"a", "b", "c", "d", "e", "f", "g", "h", "i", "j", "k", "l", "m",
              "n", "o", "p", "q", "r", "s", "t", "u", "v", "w", "x", "y", "z",
              "A", "B", "C", "D", "E", "F", "G", "H", "I", "J", "K", "L", "M",
              "N", "O", "P", "Q", "R", "S", "T", "U", "V", "W", "X", "Y", "Z",
              "0", "1", "2", "3", "4", "5", "6", "7", "8", "9"}
    \/ c \in {"_", "?", ".", "-", "+"}

\* Variables::is_valid_variable_name
is_valid_variable_name(name) ==
    \A i \in 1..Len(name) : is_valid_variable_character(name[i])

\* Variables::is_hashmap_reference: Some(<<map_name, inner_key>>) or None
is_hashmap_reference(key) ==
    LET key_iter == split(key, "[", << >>)
        map_name == key_iter[1]
        inner_key == key_iter[2]
    IN  IF /\ is_valid_variable_name(map_name)
           /\ Len(key_iter) >= 2
           /\ ends_with(inner_key, <<"]">>)
        THEN Some(<<map_name,
                    trim_matches(split(inner_key, "]", << >>)[1], {"'", "\""})>>)
        ELSE None

(* ---- inputs of the calls ---- *)
Name_x == <<"x">>
Name_empty == << >>
Name_super_x == Str_SUPER_PREFIX \o Name_x
Name_global_x == Str_GLOBAL_PREFIX \o Name_x
Name_git_b == <<"g", "i", "t">> \o Str_NS_SEP \o <<"b">>
Name_hg_b == <<"h", "g">> \o Str_NS_SEP \o <<"b">>

Fn_f == FunctionV(<<"f">>)
Fn_g == FunctionV(<<"g">>)
Str_0 == StrV(<<"0">>)
Str_1 == StrV(<<"1">>)
Str_a == StrV(<<"a">>)
Str_none == StrV(<< >>)
Alias_a == AliasV(<<"a">>)
Alias_b == AliasV(<<"b">>)
Array_none == ArrayV(<< >>)
Array_a == ArrayV(<<"a">>)
Array_b == ArrayV(<<"b">>)
HashMap_none == HashMapV(<< >>)
HashMap_a == HashMapV(<<"k=a">>)
HashMap_b == HashMapV(<<"k=b">>)
BTreeMap_a == BTreeMapV(<<"k=a">>)
BTreeMap_b == BTreeMapV(<<"k=1">>)

\* the environment the process inherits
InheritedEnv == Str_PWD :> <<"/", "r", "/", "v", "/", "l", "/", "n">>

(* ---- the calls ---- *)
NoVar == VariableType("None", << >>)
\* a call and its arguments; found is the kind of the entry get_mut gave set
Call(op, name, var, namespace, index) ==
    [op |-> op, name |-> name, var |-> var, namespace |-> namespace, index |-> index,
     found |-> "None"]
found_kind(st, name) ==
    LET found == get_mut(st.scopes, st.current, name)
    IN  IF found = None THEN "None" ELSE found.val.kind

Commit(st, call) ==
    /\ scopes' = st.scopes
    /\ current' = st.current
    /\ flags' = st.flags
    /\ panicked' = st.panic
    /\ last' = call
    /\ UNCHANGED <<env, root>>
    /\ UNCHANGED binary

\* Context::new() as InteractiveBinary::new leaves it: an empty history, nothing
\* committed to the history file, the editor's default key bindings
Context_new == [history |-> << >>, file |-> << >>, key_bindings |-> "Emacs"]

\* the shell InteractiveBinary::new is given: no command in progress, and a
\* directory stack that holds the working directory
Shell_new ==
    [unterminated |-> FALSE, submitted |-> << >>,
     directory_stack |-> <<InheritedEnv[Str_PWD]>>]

\* the entries of a scope list that construction did not put there
RECURSIVE Added(_)
Added(sc) ==
    IF Len(sc) = 0 THEN 0
    ELSE Cardinality(DOMAIN Head(sc).vars \ DOMAIN DefaultVars(FALSE)) + Added(Tail(sc))

\* Variables::default(), on a host where is_root() answers one of roots
InitWith(roots) ==
    /\ root \in roots
    /\ scopes = <<Scope(DefaultVars(root), FALSE)>>
    /\ current = 0
    /\ flags = 0
    /\ env = DefaultEnv(InheritedEnv)
    /\ saved = << >>
    /\ panicked = FALSE
    /\ last = Call("default", << >>, NoVar, FALSE, 0)
    /\ context = Context_new
    /\ shell = Shell_new
    /\ lines = [consumed |-> << >>, typed |-> << >>, reported |-> FALSE]
    /\ events = << >>

\* new_scope(namespace), while the scope list keeps at most depth slots
NewScope(namespace, depth) ==
    /\ ~panicked
    /\ Len(new_scope(Self, namespace).scopes) <= depth
    /\ Commit(new_scope(Self, namespace), Call("new_scope", << >>, NoVar, namespace, 0))
    /\ UNCHANGED saved

PopScope ==
    /\ ~panicked
    /\ \E out \in pop_scope(Self) :
           Commit(out, Call("pop_scope", << >>, NoVar, FALSE, 0))
    /\ UNCHANGED saved

\* let scopes = variables.pop_scopes(index).collect()
PopScopes(index) ==
    /\ ~panicked
    /\ LET r == pop_scopes(Self, index)
       IN  /\ Commit(r.store, Call("pop_scopes", << >>, NoVar, FALSE, index))
           /\ saved' = r.yield

\* variables.append_scopes(scs), with the scopes the caller holds from
\* pop_scopes or a vector it built
AppendScopes(scs, depth) ==
    /\ ~panicked
    /\ Len(append_scopes(Self, scs).scopes) <= depth
    /\ Commit(append_scopes(Self, scs),
              Call("append_scopes", << >>, NoVar, FALSE, Len(scs)))
    /\ saved' = IF scs = saved THEN << >> ELSE saved

\* set(name, var), while the store keeps at most room entries of its own
Set(name, var, room) ==
    /\ ~panicked
    /\ Added(set(Self, name, var).scopes) + Added(saved) <= room
    /\ Commit(set(Self, name, var),
              [Call("set", name, var, FALSE, 0) EXCEPT !.found = found_kind(Self, name)])
    /\ UNCHANGED saved

Shadow(name, var, room) ==
    /\ ~panicked
    /\ Added(shadow(Self, name, var).scopes) + Added(saved) <= room
    /\ Commit(shadow(Self, name, var), Call("shadow", name, var, FALSE, 0))
    /\ UNCHANGED saved

RemoveVariable(name) ==
    /\ ~panicked
    /\ Commit(remove_variable(Self, name), Call("remove_variable", name, NoVar, FALSE, 0))
    /\ UNCHANGED saved

(* ---- Spec: scopes pushed and popped, one name bound and looked up ---- *)
LookupNames == {Name_x}
LookupVars == {Str_1, Fn_f}

Init == InitWith({FALSE})

Next ==
    \/ \E namespace \in BOOLEAN : NewScope(namespace, MaxDepth)
    \/ PopScope
    \/ \E name \in LookupNames, var \in LookupVars : Set(name, var, MaxVars)
    \/ \E name \in LookupNames, var \in LookupVars : Shadow(name, var, MaxVars)
    \/ \E name \in LookupNames : RemoveVariable(name)

Spec == Init /\ [][Next]_vars

(* ---- SpecStack: every call that moves the scope stack ---- *)
StackVars == {Str_1}
BuiltScopes == {<< >>, <<Scope(EmptyMap, TRUE)>>}

NextStack ==
    \/ \E namespace \in BOOLEAN : NewScope(namespace, MaxStackDepth)
    \/ PopScope
    \/ \E index \in 0..Len(scopes) : PopScopes(index)
    \/ \E scs \in {saved} \cup BuiltScopes : AppendScopes(scs, MaxStackDepth)
    \/ \E var \in StackVars : Set(Name_x, var, MaxStackVars)

SpecStack == Init /\ [][NextStack]_vars

(* ---- SpecSlots: scopes left and entered again, with aliases, functions and arrays ---- *)
SlotVars == {Alias_a, Fn_f, Array_a}

NextSlots ==
    \/ \E namespace \in BOOLEAN : NewScope(namespace, MaxSetDepth)
    \/ PopScope
    \/ \E index \in 0..Len(scopes) : PopScopes(index)
    \/ \E scs \in {saved} \cup BuiltScopes : AppendScopes(scs, MaxSetDepth)
    \/ \E var \in SlotVars : Set(Name_x, var, MaxSetVars)

SpecSlots == Init /\ [][NextSlots]_vars

(* ---- SpecSet: assignments of every kind ---- *)
\* one value of each kind, and the empty values set deletes on
KindVars ==
    {Str_1, Alias_a, Array_a, HashMap_a, BTreeMap_a, Fn_f, Str_none, Array_none}
SetCalls ==
    {<<Name_x, var>> : var \in KindVars}
        \cup {<<Str_NS_PLUGINS, var>> : var \in {Str_0, Str_1}}
        \cup {<<Str_MWD, Str_1>>, <<Name_empty, Str_1>>, <<Name_git_b, Str_1>>}

NextSet ==
    \/ \E namespace \in BOOLEAN : NewScope(namespace, MaxSetDepth)
    \/ PopScope
    \/ \E call \in SetCalls : Set(call[1], call[2], MaxSetVars)

SpecSet == Init /\ [][NextSet]_vars

(* ---- SpecDeny: assignments to names set refuses ---- *)
DenyNames == {Name_x, Name_empty, Name_super_x, Name_global_x}
DenyVars == {Str_1, Fn_f}

NextDeny ==
    \/ \E namespace \in BOOLEAN : NewScope(namespace, MaxSetDepth)
    \/ PopScope
    \/ \E name \in DenyNames, var \in DenyVars : Set(name, var, MaxSetVars)

SpecDeny == Init /\ [][NextDeny]_vars

(* ---- SpecPlugin: the PLUGIN flag, as root and as another user ---- *)
PluginVars == {Str_0, Str_1, Str_a}

InitPlugin == InitWith(BOOLEAN)

NextPlugin ==
    \/ \E namespace \in BOOLEAN : NewScope(namespace, MaxSetDepth)
    \/ PopScope
    \/ \E var \in PluginVars : Set(Str_NS_PLUGINS, var, MaxSetVars)

SpecPlugin == InitPlugin /\ [][NextPlugin]_vars

(* ---- SpecKinds: one name assigned values of every kind, scope by scope ---- *)
\* two values of each kind, and the empty string
KindValues ==
    {Str_1, Str_a, Alias_a, Alias_b, Array_a, Array_b, HashMap_a, HashMap_b,
     BTreeMap_a, BTreeMap_b, Fn_f, Fn_g, Str_none}

NextKinds ==
    \/ \E namespace \in BOOLEAN : NewScope(namespace, MaxSetDepth)
    \/ PopScope
    \/ \E var \in KindValues : Set(Name_x, var, MaxVars)

SpecKinds == Init /\ [][NextKinds]_vars

(* ---- SpecEnv: names bound in the store and set in the environment ---- *)
NextEnv ==
    \/ \E namespace \in BOOLEAN : NewScope(namespace, MaxSetDepth)
    \/ PopScope
    \/ \E name \in {Name_x, Str_HOME}, var \in {Str_1, Array_a} :
           Set(name, var, MaxSetVars)

SpecEnv == Init /\ [][NextEnv]_vars

(* ---- SpecExpand: the expansion services ---- *)
\* a call that only answers: its word, its other arguments and its result
Answer(op, word, args, result) ==
    [op |-> op, name |-> word, var |-> NoVar, namespace |-> FALSE, index |-> 0,
     found |-> "None", args |-> args, result |-> result]

\* variables.tilde_expansion(word, dir_stack)
TildeExpansion(word, dir_stack) ==
    /\ ~panicked
    /\ LET result == tilde_expansion(Self, env, root, word, dir_stack)
       IN  Commit(IF result.tag = "Panic" THEN Panic(Self) ELSE Self,
                  Answer("tilde_expansion", word, dir_stack, result))
    /\ UNCHANGED saved

\* Variables::is_hashmap_reference(key)
IsHashmapReference(key) ==
    /\ ~panicked
    /\ Commit(Self, Answer("is_hashmap_reference", key, << >>, is_hashmap_reference(key)))
    /\ UNCHANGED saved

\* variables.get::<Value>(name)
GetValue(name) ==
    /\ ~panicked
    /\ LET result == get("Str", Self, env, root, name)
       IN  Commit(IF result.tag = "Panic" THEN Panic(Self) ELSE Self,
                  Answer("get", name, << >>, result))
    /\ UNCHANGED saved

\* env::set_var("PWD", path)
SetEnvPwd(path) ==
    /\ ~panicked
    /\ env' = insert(env, Str_PWD, path)
    /\ last' = Call("set_var", Str_PWD, StrV(path), FALSE, 0)
    /\ UNCHANGED <<scopes, current, flags, root, saved, panicked>>
    /\ UNCHANGED binary

\* the words given to tilde_expansion: a tilde, a prefix, a remainder, and words
\* that begin otherwise
TildePrefixes ==
    {<< >>, <<"+">>, <<"-">>, <<"0">>, <<"1">>, <<"2">>, <<"+", "0">>, <<"+", "1">>,
     <<"-", "0">>, <<"-", "1">>, <<"+", "+", "1">>, <<"u">>, <<"w">>}
TildeRemainders == {<< >>, <<"/">>, <<"/", "s">>, <<"$", "s">>}
TildeWords == {<<"~">> \o p \o r : p \in TildePrefixes, r \in TildeRemainders}
PlainWords ==
    {<< >>, <<"/">>, <<"$", "s">>, <<"s">>, <<"/", "t", "m", "p">>, <<"s", "/", "~">>}
DirStacks ==
    {<< >>, <<<<"/", "t">>>>, <<<<"/", "t">>, <<"/", "b">>>>}
\* the keys given to is_hashmap_reference
MapNames == {<<"m">>, <<"m", "a", "p">>, <<"m", ".", "_", "?">>, <<"+", "-", "1">>}
MapKeys == {<< >>, <<"k">>, <<"k", "e", "y">>, <<"k", " ", "1">>}
MapQuotes == {<< >>, <<"'">>, <<"\"">>}
MapReferences ==
    {m \o <<"[">> \o q \o k \o q \o <<"]">> : m \in MapNames, k \in MapKeys, q \in MapQuotes}
        \cup {<<"m">>, <<"m", "[", "k">>, <<"m", "]", "k", "[">>, <<"m", "[", "k", "]", "x">>,
              <<"[", "k", "]">>, <<"m", "$", "[", "k", "]">>, <<"m", "[", "a", "]", "[", "b", "]">>,
              <<"m", "[", "'", "k", "\"", "]">>}
\* the working directories the process is moved to
Pwds ==
    {<<"/", "v", "a", "r", "/", "l", "o", "g", "/", "n", "i", "x">>,
     <<"/", "v", "a", "r", "/", "l", "o", "g">>,
     <<"/", "r", "/", ".", "c", "/", "d", "/", "e">>,
     <<"/", "a", "/", ".", "/", "b">>,
     <<"/">>}

NextExpand ==
    \/ \E word \in TildeWords \cup PlainWords, dir_stack \in DirStacks :
           TildeExpansion(word, dir_stack)
    \/ \E key \in MapReferences : IsHashmapReference(key)
    \/ \E name \in {Str_MWD, Str_SWD, Str_PWD} : GetValue(name)
    \/ \E path \in Pwds : SetEnvPwd(path)
    \/ \E var \in {Str_a, Str_none} : Set(Str_OLDPWD, var, MaxSetVars)

SpecExpand == Init /\ [][NextExpand]_vars

(* ======================= properties of the lookups ======================= *)
\* the indices of the active scopes whose namespace flag is set
ActiveNamespaces ==
    IF current < Len(scopes) THEN {i \in 0..current : scopes[i + 1].namespace} ELSE {}
\* the entry a place holds
EntryAt(place) == scopes[place.val.index + 1].vars[place.val.key]
\* n behind k copies of "super::"
RECURSIVE Supers(_, _)
Supers(k, n) == IF k = 0 THEN n ELSE Str_SUPER_PREFIX \o Supers(k - 1, n)
\* names without a super:: or global:: prefix
PlainNames == {Name_x, Name_empty, Str_PID, Str_HISTORY_IGNORE, Str_NS_PLUGINS, Name_git_b}
QualifiedNames == {Name_super_x, Name_global_x, Str_SUPER_PREFIX \o Str_PID}

\* C1: an unqualified get_ref never returns an entry that is not a function
\* from a scope below the innermost active namespace scope.
C1_BoundaryHidesAllButFunctions ==
    ~panicked =>
        \A n \in PlainNames :
            LET place == get_ref_place(scopes, current, n)
            IN  (place # None /\ \E b \in ActiveNamespaces : place.val.index < b)
                    => EntryAt(place).kind = "Function"

\* C1: a namespace scope is active, a string below it is not seen and a
\* function below it is.
C1_Witness ==
    /\ ~panicked
    /\ \E b \in ActiveNamespaces :
          /\ b > 0
          /\ get_ref(scopes, current, Str_PID) = None
          /\ LET place == get_ref_place(scopes, current, Name_x)
             IN  place # None /\ place.val.index < b /\ EntryAt(place).kind = "Function"

\* the k for which the k innermost active scopes are all namespace scopes
\* pushed on a scope S = current - k
PushedRuns ==
    {k \in 1..current :
        current < Len(scopes) /\ \A i \in (current - k + 1)..current : scopes[i + 1].namespace}
\* the pushed scopes that bind n to a function
PushedFunctions(k, n) ==
    {i \in (current - k + 1)..current :
        contains_key(scopes[i + 1].vars, n) /\ scopes[i + 1].vars[n].kind = "Function"}

\* C2 as stated: behind k namespace pushes, super::^k n is the binding of n
\* that S sees, whatever the pushed scopes bind.
C2_SuperReachesEnclosing ==
    ~panicked =>
        \A k \in PushedRuns : \A n \in {Name_x, Str_PID, Name_global_x} :
            get_ref_place(scopes, current, Supers(k, n))
                = get_ref_place(scopes, current - k, n)

\* C2 as amended: for an unqualified n, super::^k n is the binding of n that S
\* sees unless a pushed scope binds n to a function, and then it is the function
\* of the innermost such scope.
C2_SuperReachesEnclosingOrFunction ==
    ~panicked =>
        \A k \in PushedRuns : \A n \in PlainNames :
            LET place == get_ref_place(scopes, current, Supers(k, n))
                fns == PushedFunctions(k, n)
            IN  IF fns = {}
                THEN place = get_ref_place(scopes, current - k, n)
                ELSE /\ place # None
                     /\ place.val.index \in fns
                     /\ \A i \in fns : i <= place.val.index

\* C2: two namespace scopes are pushed on a scope that sees a string x, the
\* innermost binds x again, and super::super::x is the string S sees.
C2_Witness ==
    /\ ~panicked
    /\ 2 \in PushedRuns
    /\ contains_key(scopes[current + 1].vars, Name_x)
    /\ LET place == get_ref_place(scopes, current, Supers(2, Name_x))
       IN  /\ place # None
           /\ place.val.index = current - 2
           /\ EntryAt(place).kind = "Str"

\* C3 as stated: for every name n, global::n is the entry of n behind as many
\* super:: as there are active namespace scopes.
C3_GlobalIsSupers ==
    ~panicked =>
        \A n \in PlainNames \cup QualifiedNames :
            get_ref_place(scopes, current, Str_GLOBAL_PREFIX \o n)
                = get_ref_place(scopes, current, Supers(Cardinality(ActiveNamespaces), n))

\* C3 as amended: the same for every name n that does not itself begin with
\* super:: or global::.
C3_GlobalIsSupersOfPlainName ==
    ~panicked =>
        \A n \in PlainNames :
            get_ref_place(scopes, current, Str_GLOBAL_PREFIX \o n)
                = get_ref_place(scopes, current, Supers(Cardinality(ActiveNamespaces), n))

\* C3: two namespace scopes are active, the innermost binds x, and global::x
\* is a string of the outermost region.
C3_Witness ==
    /\ ~panicked
    /\ current < Len(scopes)
    /\ Cardinality(ActiveNamespaces) = 2
    /\ contains_key(scopes[current + 1].vars, Name_x)
    /\ LET place == get_ref_place(scopes, current, Str_GLOBAL_PREFIX \o Name_x)
       IN  place # None /\ place.val.index = 0 /\ EntryAt(place).kind = "Str"

\* the names and the values the assignments below are asked about
AssignedNames == {Name_x, Name_empty, Str_NS_PLUGINS, Str_MWD, Name_git_b, Str_PID}
AssignedVars == {Str_a, Str_0, Alias_b, Array_b, HashMap_b, BTreeMap_b, Fn_g}
\* set(n, v) of a string value that set or get treats by name
NamedApart(n, v) ==
    /\ v.kind = "Str"
    /\ \/ n \in {Str_NS_PLUGINS, Str_MWD, Str_SWD}
       \/ find(n, Str_NS_SEP) # None

\* C4 (as stated): for every name n and every non-empty value v, in a store
\* where get_mut(n) finds an entry of the kind of v, get of that kind
\* returns v after set(n, v).
C4_SetThenGet ==
    ~panicked =>
        \A n \in AssignedNames, v \in AssignedVars :
            found_kind(Self, n) = v.kind =>
                get(v.kind, set(Self, n, v), env, root, n) = Some(v.val)

\* C4 (amended): the same for every non-empty name n, a string value being
\* asked about only under a name other than NS_PLUGINS, MWD and SWD that
\* holds no "::".
C4_SetThenGetOfOrdinaryName ==
    ~panicked =>
        \A n \in AssignedNames \ {Name_empty}, v \in AssignedVars :
            (found_kind(Self, n) = v.kind /\ ~NamedApart(n, v)) =>
                get(v.kind, set(Self, n, v), env, root, n) = Some(v.val)

\* set has overwritten, in a scope below the current one, the string entry
\* get_mut found there, and get reads the new value
C4_Witness ==
    /\ ~panicked
    /\ last.op = "set"
    /\ last.name = Name_x
    /\ last.found = "Str"
    /\ last.var = Str_1
    /\ current < Len(scopes)
    /\ LET place == get_mut_place(scopes, current, Name_x)
       IN  place # None /\ place.val.index < current
    /\ get("Str", Self, env, root, Name_x) = Some(Str_1.val)

\* C5: for every name n, whatever n was bound to before, the current scope
\* holds no entry for n after set(n, "").
C5_SetEmptyDeletes ==
    (/\ ~panicked
     /\ current < Len(scopes)
     /\ last.op = "set"
     /\ last.var = Str_none) =>
        ~contains_key(scopes[current + 1].vars, last.name)

\* C6: for a name that begins with super:: or global::, get_mut returns
\* absent and set leaves the store as it was.
C6_QualifiedSetDenied ==
    [][(/\ last'.op = "set"
        /\ \/ starts_with(last'.name, Str_SUPER_PREFIX)
           \/ starts_with(last'.name, Str_GLOBAL_PREFIX)) =>
            /\ get_mut(scopes, current, last'.name) = None
            /\ scopes' = scopes
            /\ current' = current
            /\ flags' = flags]_vars

\* C7: after any sequence of new_scope, pop_scope, pop_scopes and
\* append_scopes, 0 <= current < len(scopes), the scope list is not empty and
\* slot 0 still holds what construction put into the global scope.
C7_StackShape ==
    ~panicked =>
        /\ 0 <= current
        /\ current < Len(scopes)
        /\ Len(scopes) > 0
        /\ DOMAIN DefaultVars(root) \subseteq DOMAIN scopes[1].vars
        /\ ~scopes[1].namespace

\* C8: in every store, set("NS_PLUGINS", "1") leaves the PLUGIN flag set,
\* set("NS_PLUGINS", "0") leaves it clear, and any other non-empty string
\* value leaves it as it was.
C8_NsPluginsTogglesFlag ==
    [][(/\ last'.op = "set"
        /\ last'.name = Str_NS_PLUGINS
        /\ last'.var.kind = "Str"
        /\ ~is_empty(last'.var)
        /\ ~panicked') =>
            IF last'.var = Str_1 THEN has_plugin_support(flags')
            ELSE IF last'.var = Str_0 THEN ~has_plugin_support(flags')
            ELSE flags' = flags]_vars

\* C9: set("", v) leaves every store as it was, for every value v.
C9_SetEmptyNameIsNoOp ==
    [][(last'.op = "set" /\ last'.name = Name_empty /\ ~panicked') =>
            /\ scopes' = scopes
            /\ current' = current
            /\ flags' = flags]_vars

\* C10: get of a string under a name ns::var of a plugin namespace runs the
\* plugin registered under ns exactly when the PLUGIN flag is set, the
\* process is not root and ns is registered, and is absent otherwise.
C10_PluginRunsWhenAllowed ==
    ~panicked =>
        \A name \in {Name_git_b, Name_hg_b} :
            LET pos == find(name, Str_NS_SEP)
                ns == SubSeq(name, 1, pos.val)
                variable == slice_from(name, pos.val + 2)
            IN  get("Str", Self, env, root, name) =
                    IF /\ has_plugin_support(flags)
                       /\ ~root
                       /\ ns \in STRING_NAMESPACES
                    THEN namespace_execute(ns, variable)
                    ELSE None

(* ---- the interactive driver ---- *)
MaxHistory == 2
MaxLines == 2

Str_RECORD_SUMMARY ==
    <<"R", "E", "C", "O", "R", "D", "_", "S", "U", "M", "M", "A", "R", "Y">>

\* the directories of the host's file system: Path::new(path).is_dir()
Sys_is_dir(path) == path \in {<<"/">>, <<"/", "t">>, Sys_home}

\* str::trim_end
RECURSIVE trim_end(_)
trim_end(s) ==
    IF s # << >> /\ s[Len(s)] \in {" ", "\n", "\t"}
    THEN trim_end(SubSeq(s, 1, Len(s) - 1))
    ELSE s

\* the bytes the loop's iterator yields for the lines readln returned: each
\* line and a newline after it
RECURSIVE into_bytes(_)
into_bytes(ls) ==
    IF ls = << >> THEN << >> ELSE ls[1] \o <<"\n">> \o into_bytes(Tail(ls))

\* whether the terminator takes the lines it was fed for a whole command: a
\* line that ends in a backslash is continued on the next line
terminated(ls) == ls # << >> /\ ~ends_with(ls[Len(ls)], <<"\\">>)

\* designators::expand_designators(context, command): !! is the last entry
\* of the history buffer, a reference that does not resolve stays literal
expand_designators(ctx, command) ==
    IF command = <<"!", "!">> /\ ctx.history # << >>
    THEN ctx.history[Len(ctx.history)]
    ELSE command

\* Shell::tilde(word): the word with its tilde prefix expanded against the
\* shell's variables and directory stack; a word without one is itself
Shell_tilde(sh, st, e, isRoot, word) ==
    IF starts_with(word, <<"~">>)
    THEN tilde_expansion(st, e, isRoot, word, sh.directory_stack)
    ELSE Some(word)

\* save_command_in_history(command): the command is pushed on the history buffer
save_command_in_history(ctx, command) ==
    [ctx EXCEPT !.history = Append(@, command)]

save_command_verbatim(ctx, sh, st, e, isRoot, cmd) ==
    save_command_in_history(ctx, cmd)

\* save_command(cmd)
save_command(ctx, sh, st, e, isRoot, cmd) ==
    LET path == Shell_tilde(sh, st, e, isRoot, cmd)
    IN  IF ~ends_with(cmd, <<"/">>) /\ path # None /\ Sys_is_dir(path.val)
        THEN save_command_in_history(ctx, cmd \o <<"/">>)
        ELSE save_command_in_history(ctx, cmd)

prep_for_exit_commit_on_hup(ctx, huponexit) ==
    IF huponexit
    THEN [context |-> [ctx EXCEPT !.file = ctx.history],
          events |-> <<"resume_stopped", "background_send(SIGHUP)", "commit_to_file">>]
    ELSE [context |-> ctx, events |-> << >>]

\* the pre-exit hook add_callbacks installs; commit_to_file leaves the file
\* with the entries of the history buffer
prep_for_exit(ctx, huponexit) ==
    [context |-> [ctx EXCEPT !.file = ctx.history],
     events |-> (IF huponexit
                 THEN <<"resume_stopped", "background_send(SIGHUP)">>
                 ELSE << >>) \o <<"commit_to_file">>]

\* the post-command hook add_callbacks installs; the summary stands for the
\* line of the elapsed time
Summary == <<"#", "s", "u", "m", "m", "a", "r", "y", "#">>
on_command(ctx, st, e, isRoot) ==
    IF get("Str", st, e, isRoot, Str_RECORD_SUMMARY) = Some(<<"1">>)
    THEN [ctx EXCEPT !.history = Append(@, Summary)]
    ELSE ctx

Status_SUCCESS == [success |-> TRUE, message |-> ""]
Status_error(message) == [success |-> FALSE, message |-> message]

keybindings_any_mode(ctx, args) ==
    IF Len(args) >= 2
    THEN [context |-> [ctx EXCEPT !.key_bindings =
                           IF args[2] = <<"v", "i">> THEN "Vi" ELSE "Emacs"],
          status |-> Status_SUCCESS]
    ELSE [context |-> ctx, status |-> Status_error("keybindings need an argument")]

\* the keybindings builtin; args[1] is the name the builtin was called by
keybindings(ctx, args) ==
    IF Len(args) >= 2 /\ args[2] = <<"v", "i">>
    THEN [context |-> [ctx EXCEPT !.key_bindings = "Vi"], status |-> Status_SUCCESS]
    ELSE IF Len(args) >= 2 /\ args[2] = <<"e", "m", "a", "c", "s">>
    THEN [context |-> [ctx EXCEPT !.key_bindings = "Emacs"], status |-> Status_SUCCESS]
    ELSE IF Len(args) >= 2
    THEN [context |-> ctx,
          status |-> Status_error("Invalid keybindings. Choices are vi and emacs")]
    ELSE [context |-> ctx, status |-> Status_error("keybindings need an argument")]

\* a main loop that saves the command as typed and expands it afterwards
main_loop_expands_after_save(ctx, sh, ln, st, e, isRoot, r, gives_up) ==
    LET fed == Append(ln.consumed, r.val)
        typed == trim_end(into_bytes(fed))
        stored == save_command(on_command(ctx, st, e, isRoot), sh, st, e, isRoot, typed)
        cmd == expand_designators(stored, typed)
    IN  IF r = None
        THEN [context |-> ctx, shell |-> sh, lines |-> ln, events |-> <<"readln">>,
              cmd |-> << >>]
        ELSE IF terminated(fed)
        THEN [context |-> stored,
              shell |-> [sh EXCEPT !.unterminated = FALSE,
                                   !.submitted = Append(@, cmd)],
              lines |-> [consumed |-> << >>, typed |-> << >>, reported |-> FALSE],
              events |-> <<"readln", "terminate", "unterminated = false",
                           "save_command", "expand_designators", "on_command">>,
              cmd |-> cmd]
        ELSE [context |-> ctx,
              shell |-> [sh EXCEPT !.unterminated = TRUE],
              lines |-> [consumed |-> << >>, typed |-> Append(ln.typed, r.val),
                         reported |-> TRUE],
              events |-> <<"readln", "terminate">>,
              cmd |-> << >>]

\* a step of the main loop: readln returns r to the iterator the terminator
\* reads from. An absent r is filtered out. A line completes the command, or
\* leaves it incomplete, and then the terminator either answers None, and the
\* loop drops the iterator and the lines it had yielded, or asks for the next
\* line (gives_up says which).
main_loop(ctx, sh, ln, st, e, isRoot, r, gives_up) ==
    LET fed == Append(ln.consumed, r.val)
        command == into_bytes(fed)
        cmd == expand_designators(ctx, trim_end(command))
    IN  IF r = None
        THEN [context |-> ctx, shell |-> sh, lines |-> ln, events |-> <<"readln">>,
              cmd |-> << >>]
        ELSE IF terminated(fed)
        THEN [context |-> save_command(on_command(ctx, st, e, isRoot),
                                       sh, st, e, isRoot, cmd),
              shell |-> [sh EXCEPT !.unterminated = FALSE,
                                   !.submitted = Append(@, cmd)],
              lines |-> [consumed |-> << >>, typed |-> << >>, reported |-> FALSE],
              events |-> <<"readln", "terminate", "unterminated = false",
                           "expand_designators", "on_command", "save_command">>,
              cmd |-> cmd]
        ELSE IF gives_up
        THEN [context |-> ctx,
              shell |-> [sh EXCEPT !.unterminated = TRUE],
              lines |-> [consumed |-> << >>, typed |-> Append(ln.typed, r.val),
                         reported |-> TRUE],
              events |-> <<"readln", "terminate">>,
              cmd |-> << >>]
        ELSE [context |-> ctx, shell |-> sh,
              lines |-> [consumed |-> fed, typed |-> Append(ln.typed, r.val),
                         reported |-> ln.reported],
              events |-> <<"readln">>,
              cmd |-> << >>]

\* the driver takes a step and the store stays as it is
Drive(ctx, sh, ln, ev, call) ==
    /\ context' = ctx
    /\ shell' = sh
    /\ lines' = ln
    /\ events' = ev
    /\ last' = call
    /\ UNCHANGED <<scopes, current, flags, env, root, saved, panicked>>

\* readln returns r in the main loop
Readln(r, gives_up) ==
    /\ ~panicked
    /\ Len(context.history) < MaxHistory
    /\ Len(lines.typed) < MaxLines
    /\ LET step == main_loop(context, shell, lines, Self, env, root, r, gives_up)
       IN  Drive(step.context, step.shell, step.lines, step.events,
                 Answer(IF step.shell.submitted # shell.submitted
                        THEN "on_command" ELSE "readln",
                        step.cmd, IF r = None THEN lines.typed
                                  ELSE Append(lines.typed, r.val),
                        r))

\* the shell runs the pre-exit hook
PrepForExit(huponexit) ==
    /\ ~panicked
    /\ LET step == prep_for_exit(context, huponexit)
       IN  Drive(step.context, shell, lines, step.events,
                 Answer("prep_for_exit", << >>, huponexit, None))

\* the shell runs the keybindings builtin
Keybindings(args) ==
    /\ ~panicked
    /\ LET step == keybindings(context, args)
       IN  Drive(step.context, shell, lines, << >>,
                 Answer("keybindings", << >>, args, step.status))

\* save_command(cmd)
SaveCommand(cmd) ==
    /\ ~panicked
    /\ Len(context.history) < MaxHistory
    /\ Drive(save_command(context, shell, Self, env, root, cmd), shell, lines,
             <<"save_command_in_history">>,
             Answer("save_command", cmd, << >>, None))

\* the lines readln returns
Lines == {<<"e", "\\">>, <<"h">>, <<"/", "t">>, <<"!", "!">>}

\* the commands given to save_command
Commands ==
    {<<"h">>, <<"/", "t">>, <<"/", "t", "/">>, <<"~">>, <<"~", "/">>, <<"~", "w">>,
     << >>}

\* the arguments given to the keybindings builtin
KeybindingsArgs ==
    LET name == <<"k">>
    IN  {<<name>>, <<name, <<"v", "i">>>>, <<name, <<"e", "m", "a", "c", "s">>>>,
         <<name, <<"f", "o", "o">>>>, <<name, <<"V", "i">>>>, <<name, << >>>>,
         <<name, <<"v", "i">>, <<"f", "o", "o">>>>}

(* ---- the word divider ---- *)
MaxBuffer == 4

RECURSIVE next(_, _), check_boundary(_, _, _, _, _)

\* a divider that opens a word on a space as on any other character
check_boundary_opens_on_space(buf, wd, c, index, escaped) ==
    IF wd.word_start # None
    THEN IF c = " " /\ ~escaped
         THEN [item |-> Some(<<wd.word_start.val, index>>),
               wd |-> [wd EXCEPT !.word_start = None]]
         ELSE next(buf, wd)
    ELSE next(buf, [wd EXCEPT !.word_start = Some(index)])

\* WordDivide::check_boundary(c, index, escaped); wd is the divider: pos is
\* the number of characters its iterator has yielded
check_boundary(buf, wd, c, index, escaped) ==
    IF wd.word_start # None
    THEN IF c = " " /\ ~escaped
         THEN [item |-> Some(<<wd.word_start.val, index>>),
               wd |-> [wd EXCEPT !.word_start = None]]
         ELSE next(buf, wd)
    ELSE next(buf, IF c # " " THEN [wd EXCEPT !.word_start = Some(index)] ELSE wd)

\* a divider that ends the last word at the running count
next_flushes_at_count(buf, wd) ==
    LET counted == [wd EXCEPT !.count = (@ + 1) % UsizeMod]
        i == counted.pos
    IN  IF i >= Len(buf)
        THEN [item |-> IF counted.word_start = None THEN None
                       ELSE Some(<<counted.word_start.val, counted.count>>),
              wd |-> [counted EXCEPT !.word_start = None]]
        ELSE IF buf[i + 1] = "\\"
        THEN IF i + 1 < Len(buf)
             THEN check_boundary(buf, [counted EXCEPT !.pos = i + 2,
                                                      !.count = (@ + 1) % UsizeMod],
                                 buf[i + 2], i, TRUE)
             ELSE next(buf, [counted EXCEPT !.pos = i + 1])
        ELSE check_boundary(buf, [counted EXCEPT !.pos = i + 1], buf[i + 1], i, FALSE)

\* WordDivide::next: the item it returns and the divider it leaves
next(buf, wd) ==
    LET counted == [wd EXCEPT !.count = (@ + 1) % UsizeMod]
        i == counted.pos
    IN  IF i >= Len(buf)
        THEN [item |-> IF counted.word_start = None THEN None
                       ELSE Some(<<counted.word_start.val,
                                   (counted.count - 1) % UsizeMod>>),
              wd |-> [counted EXCEPT !.word_start = None]]
        ELSE IF buf[i + 1] = "\\"
        THEN IF i + 1 < Len(buf)
             THEN check_boundary(buf, [counted EXCEPT !.pos = i + 2,
                                                      !.count = (@ + 1) % UsizeMod],
                                 buf[i + 2], i, TRUE)
             ELSE next(buf, [counted EXCEPT !.pos = i + 1])
        ELSE check_boundary(buf, [counted EXCEPT !.pos = i + 1], buf[i + 1], i, FALSE)

\* Iterator::collect: next is called until it returns None
RECURSIVE collect(_, _, _)
collect(buf, wd, acc) ==
    LET r == next(buf, wd)
    IN  IF r.item = None THEN acc ELSE collect(buf, r.wd, Append(acc, r.item.val))

\* word_divide(buf)
word_divide(buf) == collect(buf, [pos |-> 0, count |-> 0, word_start |-> None], << >>)

\* liner calls the word divider on its buffer
WordDivide(buf) ==
    /\ ~panicked
    /\ Commit(Self, Answer("word_divide", buf, << >>, word_divide(buf)))
    /\ UNCHANGED saved

\* the buffers of at most n characters: letters, spaces and backslashes
RECURSIVE Buffers(_)
Buffers(n) ==
    IF n = 0 THEN {<< >>}
    ELSE Buffers(n - 1) \cup {Append(b, c) : b \in Buffers(n - 1), c \in {"a", " ", "\\"}}

(* ---- SpecWords: the word divider on every short buffer ---- *)
NextWords == \E buf \in Buffers(MaxBuffer) : WordDivide(buf)

SpecWords == Init /\ [][NextWords]_vars

(* ---- SpecLoop: the main loop of the interactive session ---- *)
NextLoop ==
    \/ \E r \in {None} \cup {Some(l) : l \in Lines}, gives_up \in BOOLEAN :
           Readln(r, gives_up)
    \/ \E var \in {Str_1, Str_none} : Set(Str_RECORD_SUMMARY, var, MaxSetVars)

SpecLoop == Init /\ [][NextLoop]_vars

(* ---- SpecHooks: the hooks and builtins of the interactive session ---- *)
NextHooks ==
    \/ \E huponexit \in BOOLEAN : PrepForExit(huponexit)
    \/ \E args \in KeybindingsArgs : Keybindings(args)
    \/ \E cmd \in Commands : SaveCommand(cmd)

SpecHooks == Init /\ [][NextHooks]_vars

(* ======================= properties of the driver ========================= *)
\* C14: when the terminator has reported unterminated after some lines and a
\* later line completes the command, the one command submitted is made of every
\* line readln returned since the command before it, joined by newlines, none
\* dropped; and each readln issued while a command is incomplete finds the
\* unterminated flag set.
C14_ContinuationJoinsLines ==
    [][/\ (last'.op \in {"readln", "on_command"} /\ lines.typed # << >>)
            => shell.unterminated
       /\ (last'.op = "on_command" /\ lines.reported)
            => shell'.submitted =
                   Append(shell.submitted,
                          expand_designators(context,
                                             trim_end(into_bytes(last'.args))))]_vars

\* C15: save_command(cmd) stores exactly one entry in the history: cmd and a
\* slash when cmd does not end in a slash and its tilde-expanded form is an
\* existing directory, cmd itself otherwise.
C15_SaveCommandStoresOneEntry ==
    [][last'.op = "save_command" =>
         LET cmd == last'.name
             path == Shell_tilde(shell, Self, env, root, cmd)
             is_directory == path # None /\ Sys_is_dir(path.val)
         IN  context'.history =
                 Append(context.history,
                        IF ~ends_with(cmd, <<"/">>) /\ is_directory
                        THEN cmd \o <<"/">>
                        ELSE cmd)]_vars

\* save_command has stored /t/ for the directory /t
C15_Witness ==
    /\ last.op = "save_command"
    /\ last.name = <<"/", "t">>
    /\ context.history # << >>
    /\ context.history[Len(context.history)] = <<"/", "t", "/">>

\* C16: every run of the pre-exit hook commits the history; with huponexit set
\* it first resumes the stopped jobs, then sends SIGHUP to the background jobs,
\* then commits; without it there is neither a resume nor a SIGHUP.
C16_PreExitCommitsHistory ==
    last.op = "prep_for_exit" =>
        /\ context.file = context.history
        /\ events = IF last.args
                    THEN <<"resume_stopped", "background_send(SIGHUP)", "commit_to_file">>
                    ELSE <<"commit_to_file">>

\* the hook has run without huponexit on a history that had an entry to commit
C16_Witness ==
    /\ last.op = "prep_for_exit"
    /\ ~last.args
    /\ context.history # << >>
    /\ context.file = context.history
    /\ events = <<"commit_to_file">>

\* C17: the keybindings builtin with vi or emacs for its first argument
\* returns success and sets that mode; with another argument, or none, it
\* returns an error status and leaves the mode as it was.
C17_KeybindingsSetsMode ==
    [][last'.op = "keybindings" =>
         LET args == last'.args
             status == last'.result
         IN  IF Len(args) >= 2 /\ args[2] = <<"v", "i">>
             THEN status.success /\ context'.key_bindings = "Vi"
             ELSE IF Len(args) >= 2 /\ args[2] = <<"e", "m", "a", "c", "s">>
             THEN status.success /\ context'.key_bindings = "Emacs"
             ELSE ~status.success /\ context'.key_bindings = context.key_bindings]_vars

\* keybindings foo has failed while the mode was vi
C17_Witness ==
    /\ last.op = "keybindings"
    /\ Len(last.args) = 2
    /\ last.args[2] = <<"f", "o", "o">>
    /\ ~last.result.success
    /\ context.key_bindings = "Vi"
(* ======================= properties of the retrievals ===================== *)
\* C11: for a name that is not MWD or SWD and has no c, color, x, hex, env or
\* plugin prefix, get of a string returns the entry get_ref finds when that
\* entry is a string, else the environment variable of the same name, else
\* nothing; get_str_or_empty then yields the empty string.
C11_StringElseEnvElseAbsent ==
    ~panicked =>
        \A n \in {Name_x, Str_HOME, Str_HOST, Str_PID, Str_HISTORY_IGNORE,
                  Name_super_x, Name_global_x, Str_GLOBAL_PREFIX \o Str_HOME,
                  Str_SUPER_PREFIX \o Str_HOME} :
            LET found == get_ref(scopes, current, n)
                expected ==
                    IF found # None /\ found.val.kind = "Str" THEN Some(found.val.val)
                    ELSE IF n \in DOMAIN env THEN Some(env[n])
                    ELSE None
            IN  /\ get("Str", Self, env, root, n) = expected
                /\ get_str_or_empty(Self, env, root, n) =
                       IF expected = None THEN << >> ELSE expected.val

\* HOME is bound to an array in an active scope and get answers from the
\* environment, x is nowhere and get_str_or_empty answers ""
C11_Witness ==
    /\ ~panicked
    /\ LET found == get_ref(scopes, current, Str_HOME)
       IN  found # None /\ found.val.kind = "Array"
    /\ get("Str", Self, env, root, Str_HOME) = Some(Sys_home)
    /\ get_ref(scopes, current, Name_x) = None
    /\ get("Str", Self, env, root, Name_x) = None
    /\ get_str_or_empty(Self, env, root, Name_x) = << >>

(* ======================= properties of the expansions ===================== *)
\* C12: for every tilde form that resolves, the word being split at its first
\* '/' or '$' into a prefix and a remainder R, tilde_expansion gives the path
\* the prefix alone resolves to, followed by R.
C12_TildeAppendsRemainder ==
    (last.op = "tilde_expansion" /\ starts_with(last.name, <<"~">>)) =>
        LET word == last.name
            seps == {i \in 1..Len(word) : word[i] \in {"/", "$"}}
            cut == IF seps = {} THEN Len(word) + 1
                   ELSE CHOOSE i \in seps : \A j \in seps : i <= j
            R == SubSeq(word, cut, Len(word))
            alone == tilde_expansion(Self, env, root, SubSeq(word, 1, cut - 1), last.args)
        IN  alone.tag = "Some" => last.result = Some(alone.val \o R)

\* C13: for every word that does not start with '~', the empty word and words
\* starting with '/' or '$' included, tilde expansion yields the word unchanged
\* and does not abort.
C13_NoTildeIsIdentity ==
    (last.op = "tilde_expansion" /\ ~starts_with(last.name, <<"~">>)) =>
        /\ ~panicked
        /\ last.result = Some(last.name)

\* a path's segments but the last, each cut to its first character, and to its
\* first two when the first is '.', each followed by '/'
RECURSIVE Abbreviated(_)
Abbreviated(elements) ==
    IF Len(elements) = 0 THEN << >>
    ELSE LET element == Head(elements)
         IN  (IF element[1] = "." /\ Len(element) > 1 THEN SubSeq(element, 1, 2)
              ELSE <<element[1]>>) \o <<"/">> \o Abbreviated(Tail(elements))

\* C18: MWD is SWD when SWD has two or fewer non-empty segments between its
\* '/'; with three or more, every segment but the last is cut to its first
\* grapheme (and the next one when the first is '.'), the pieces are joined
\* with '/' and the last segment is kept whole.
C18_MinimalDirectory ==
    ~panicked =>
        LET swd == get("Str", Self, env, root, Str_SWD)
            mwd == get("Str", Self, env, root, Str_MWD)
            elements == split_nonempty(swd.val, "/", << >>)
        IN  /\ swd.tag = "Some"
            /\ mwd = IF Len(elements) > 2
                     THEN Some(Abbreviated(SubSeq(elements, 1, Len(elements) - 1))
                               \o elements[Len(elements)])
                     ELSE swd

\* C19: for every non-empty valid name m and every key k without a bracket or
\* a quote, is_hashmap_reference of m['k'], of m["k"] and of m[k] is (m, k).
C19_MapReferenceRoundTrip ==
    last.op = "is_hashmap_reference" =>
        \A m \in MapNames, k \in MapKeys, q \in MapQuotes :
            last.name = m \o <<"[">> \o q \o k \o q \o <<"]">>
                => last.result = Some(<<m, k>>)

\* map['key'] was asked about and answered (map, key)
C19_Witness ==
    /\ last.op = "is_hashmap_reference"
    /\ last.name = <<"m", "a", "p", "[", "'", "k", "e", "y", "'", "]">>
    /\ last.result = Some(<<<<"m", "a", "p">>, <<"k", "e", "y">>>>)

(* ======================= properties of get_mut ============================ *)
\* the index of the innermost active namespace scope, 0 when there is none
Boundary ==
    IF ActiveNamespaces = {} THEN 0
    ELSE CHOOSE i \in ActiveNamespaces : \A j \in ActiveNamespaces : j <= i

\* C20: for an unqualified name n, get_mut(n) is the entry of the nearest scope
\* that binds n among the scopes from current outward to the nearest namespace
\* scope, that scope included, and is absent when none of them binds n,
\* whatever the scopes beyond bind.
C20_GetMutStopsAtBoundary ==
    (~panicked /\ current < Len(scopes)) =>
        \A n \in PlainNames :
            LET binding == {i \in Boundary..current : contains_key(scopes[i + 1].vars, n)}
            IN  get_mut_place(scopes, current, n) =
                    IF binding = {} THEN None
                    ELSE Some([index |-> CHOOSE i \in binding : \A j \in binding : j <= i,
                               key |-> n])

\* x is bound in the global scope and in the namespace scope above it, not in
\* the current scope above that: get_mut gives the entry of the namespace scope
C20_Witness ==
    /\ ~panicked
    /\ current = 2
    /\ Len(scopes) > 2
    /\ scopes[2].namespace
    /\ ~scopes[3].namespace
    /\ contains_key(scopes[1].vars, Name_x)
    /\ contains_key(scopes[2].vars, Name_x)
    /\ ~contains_key(scopes[3].vars, Name_x)
    /\ get_mut_place(scopes, current, Name_x) = Some([index |-> 1, key |-> Name_x])
    /\ get_mut(scopes, current, Name_x) = Some(scopes[2].vars[Name_x])

(* ======================= properties of remove_variable ==================== *)
\* C21: remove_variable(name) deletes exactly the entry get_mut(name) gives, and
\* when get_mut(name) is absent, the name being bound only beyond the nearest
\* namespace scope or nowhere, it deletes nothing; every other entry of every
\* scope stays as it is.
C21_RemoveFollowsGetMut ==
    [][(last'.op = "remove_variable" /\ ~panicked /\ current < Len(scopes)) =>
         LET place == get_mut_place(scopes, current, last'.name)
         IN  scopes' = IF place = None THEN scopes
                       ELSE [scopes EXCEPT ![place.val.index + 1].vars =
                                               remove(@, place.val.key)]]_vars

(* ======================= properties of set ================================ *)
\* C22: when get_mut(n) finds an entry of the kind of a non-empty value v,
\* whatever the kind, set(n, v) overwrites that entry where it lives, and no
\* other scope gains, loses or changes a binding.
C22_SameKindOverwritesInPlace ==
    [][(last'.op = "set" /\ ~panicked /\ current < Len(scopes)) =>
         LET n == last'.name
             v == last'.var
             place == get_mut_place(scopes, current, n)
         IN  (/\ place # None
              /\ scopes[place.val.index + 1].vars[n].kind = v.kind
              /\ ~is_empty(v))
                 => scopes' = [scopes EXCEPT ![place.val.index + 1].vars[n] = v]]_vars

\* C23: when get_mut(n) finds an entry of another kind than the value v,
\* set(n, v) writes v under n into the current scope and the entry found keeps
\* its kind and value, in the current scope as in any other.
C23_OtherKindShadows ==
    [][(last'.op = "set" /\ ~panicked /\ current < Len(scopes)) =>
         LET n == last'.name
             v == last'.var
             place == get_mut_place(scopes, current, n)
         IN  (/\ place # None
              /\ scopes[place.val.index + 1].vars[n].kind # v.kind)
                 => /\ contains_key(scopes'[current + 1].vars, n)
                    /\ scopes'[current + 1].vars[n] = v
                    /\ scopes'[place.val.index + 1].vars[n] =
                           scopes[place.val.index + 1].vars[n]]_vars

(* ======================= properties of get_ref ============================ *)
\* the names get_ref is asked for: x, and x behind super:: and global::
WalkNames == {Name_x, Name_super_x, Name_global_x, Supers(2, Name_x)}

\* C24: in the outward walk of get_ref the first scope that binds the stripped
\* name to a function ends the lookup with that function, whatever the climb
\* count then is, while an entry of another kind ends it only at a climb count
\* of zero: an unqualified name reaches a function across any number of
\* namespace scopes, and a super:: or global:: name gets a function bound in
\* the current scope.
C24_FunctionEndsWalk ==
    (~panicked /\ current < Len(scopes)) =>
        \A n \in WalkNames :
            LET q == qualifier(scopes, current, n)
                binds(i) == contains_key(scopes[i + 1].vars, q.name)
                climb(i) == q.up_namespace
                                - Cardinality({j \in (i + 1)..current : scopes[j + 1].namespace})
                ends == {i \in 0..current :
                            /\ binds(i)
                            /\ \/ scopes[i + 1].vars[q.name].kind = "Function"
                               \/ climb(i) = 0}
            IN  get_ref_place(scopes, current, n) =
                    IF ends = {} THEN None
                    ELSE Some([index |-> CHOOSE i \in ends : \A j \in ends : j <= i,
                               key |-> q.name])

\* the current scope is a namespace scope that binds x to a function, the scope
\* below binds x to a string: get_ref(super::x) is the function of the current
\* scope, and so is get_ref(global::x)
C24_Witness ==
    /\ ~panicked
    /\ current = 1
    /\ Len(scopes) > 1
    /\ scopes[2].namespace
    /\ contains_key(scopes[2].vars, Name_x)
    /\ scopes[2].vars[Name_x].kind = "Function"
    /\ contains_key(scopes[1].vars, Name_x)
    /\ scopes[1].vars[Name_x].kind = "Str"
    /\ get_ref_place(scopes, current, Name_super_x) = Some([index |-> 1, key |-> Name_x])
    /\ get_ref_place(scopes, current, Name_global_x) = Some([index |-> 1, key |-> Name_x])

(* ======================= properties of the main loop ====================== *)
\* what the main loop does for the line that completes a command, in order
CommandEvents ==
    <<"readln", "terminate", "unterminated = false", "expand_designators",
      "on_command", "save_command">>

\* the command the terminator returned in the step that submitted one, trimmed
Typed(ln, call) == trim_end(into_bytes(Append(ln.consumed, call.result.val)))

\* the history as the post-command hook leaves it
Hooked == on_command(context, Self, env, root).history

\* C25 as stated: for each complete command the loop clears the unterminated
\* flag, expands the designators against the history as it is before the
\* command is saved, submits the expanded text and saves it, once each and in
\* this order, before the next readln; the text saved is the text executed.
C25_CommandStepsInOrder ==
    [][last'.op = "on_command" =>
         LET cmd == expand_designators(context, Typed(lines, last'))
         IN  /\ events' = CommandEvents
             /\ ~shell'.unterminated
             /\ shell'.submitted = Append(shell.submitted, cmd)
             /\ context'.history = Append(Hooked, cmd)]_vars

\* C25 as amended: the same, the text saved being the text executed with a
\* slash after it when it does not end in one and names a directory.
C25_CommandStepsInOrderSlashed ==
    [][last'.op = "on_command" =>
         LET cmd == expand_designators(context, Typed(lines, last'))
             path == Shell_tilde(shell, Self, env, root, cmd)
             entry == IF ~ends_with(cmd, <<"/">>) /\ path # None /\ Sys_is_dir(path.val)
                      THEN cmd \o <<"/">>
                      ELSE cmd
         IN  /\ events' = CommandEvents
             /\ ~shell'.unterminated
             /\ shell'.submitted = Append(shell.submitted, cmd)
             /\ context'.history = Append(Hooked, entry)]_vars

\* the line !! was read after the command h: h was executed again and saved again
C25_Witness ==
    /\ last.op = "on_command"
    /\ last.args = <<<<"!", "!">>>>
    /\ last.name = <<"h">>
    /\ ~shell.unterminated
    /\ shell.submitted = <<<<"h">>, <<"h">>>>
    /\ context.history = <<<<"h">>, <<"h">>>>
    /\ events = CommandEvents

(* ======================= properties of the word divider =================== *)
\* the characters of a buffer as the divider meets them from position i on: a
\* character behind a backslash is met escaped and at the index of the
\* backslash, a backslash at the end of the buffer is not met
RECURSIVE Met(_, _)
Met(buf, i) ==
    IF i >= Len(buf) THEN {}
    ELSE IF buf[i + 1] = "\\"
    THEN IF i + 1 < Len(buf)
         THEN {[index |-> i, c |-> buf[i + 2], escaped |-> TRUE]} \cup Met(buf, i + 2)
         ELSE {}
    ELSE {[index |-> i, c |-> buf[i + 1], escaped |-> FALSE]} \cup Met(buf, i + 1)

\* the unescaped spaces of a buffer
UnescapedSpaces(buf) == {u \in Met(buf, 0) : u.c = " " /\ ~u.escaped}

\* C26: a word opens at the index of the first character that is not a space
\* met while no word is open; the first unescaped space after it closes it
\* with the index of that space for its end; a word open at the end of the
\* input ends at the running count minus one, the number of characters of the
\* buffer, escapes and a trailing backslash included.
C26_WordsOpenAndClose ==
    last.op = "word_divide" =>
        LET buf == last.name
            spans == last.result
            met == Met(buf, 0)
        IN  /\ \A k \in DOMAIN spans :
                   LET start == spans[k][1]
                       closed == IF k = 1 THEN 0 ELSE spans[k - 1][2]
                       after == {u \in UnescapedSpaces(buf) : u.index > start}
                   IN  /\ \E u \in met : u.index = start /\ u.c # " "
                       /\ \A u \in met :
                              (closed <= u.index /\ u.index < start) => u.c = " "
                       /\ spans[k][2] =
                              IF after = {} THEN Len(buf)
                              ELSE (CHOOSE u \in after : \A v \in after : u.index <= v.index).index
            /\ \A u \in met :
                   u.c # " " => \E k \in DOMAIN spans :
                                    spans[k][1] <= u.index /\ u.index < spans[k][2]

\* a word closed by a space and a word with a trailing backslash that the end
\* of the input closed at the length of the buffer
C26_Witness ==
    /\ last.op = "word_divide"
    /\ last.name = <<"a", " ", "a", "\\">>
    /\ last.result = <<<<0, 1>>, <<2, 4>>>>

\* C27: a character behind an unescaped backslash never closes a word and
\* always belongs to one: inside a word it stays in that word, and met while no
\* word is open, a space too, it opens a word that starts at the backslash.
C27_EscapedBelongsToWord ==
    last.op = "word_divide" =>
        \A u \in Met(last.name, 0) :
            u.escaped => \E k \in DOMAIN last.result :
                             /\ last.result[k][1] <= u.index
                             /\ u.index + 2 <= last.result[k][2]

\* C30: the divider ends on every buffer, and its spans have start < end <=
\* the number of characters, come in increasing order with the end of each
\* below the start of the next, and hold no unescaped space.
C30_SpansWellFormed ==
    last.op = "word_divide" =>
        LET buf == last.name
            spans == last.result
        IN  /\ \A k \in DOMAIN spans :
                   /\ spans[k][1] < spans[k][2]
                   /\ spans[k][2] <= Len(buf)
                   /\ \A u \in UnescapedSpaces(buf) :
                          ~(spans[k][1] <= u.index /\ u.index < spans[k][2])
            /\ \A k \in 1..(Len(spans) - 1) : spans[k][2] < spans[k + 1][1]

\* two words, the first opened by an escaped letter
C30_Witness ==
    /\ last.op = "word_divide"
    /\ last.name = <<"\\", "a", " ", "a">>
    /\ last.result = <<<<0, 2>>, <<3, 4>>>>

(* ======================= properties of the scope stack ==================== *)
\* C28: in every store, for every index i <= current, append_scopes of the
\* scopes pop_scopes(i) yields brings the store back as the lookups see it:
\* current has the value it had and get_ref gives what it gave for every name,
\* qualified or not; no inactive slot becomes active.
C28_PopAppendRoundTrip ==
    (~panicked /\ current < Len(scopes)) =>
        \A i \in 0..current :
            LET popped == pop_scopes(Self, i)
                back == append_scopes(popped.store, popped.yield)
            IN  /\ ~back.panic
                /\ back.current = current
                /\ \A n \in PlainNames \cup QualifiedNames :
                       get_ref(back.scopes, back.current, n) = get_ref(scopes, current, n)

\* C29: in every store the slots above current hold no entry; so new_scope
\* enters a scope without bindings that has the namespace flag asked for, and
\* aliases(), functions() and arrays(), which go through every slot, yield
\* entries of active scopes only.
C29_InactiveSlotsEmpty ==
    ~panicked =>
        /\ \A i \in DOMAIN scopes : i - 1 > current => scopes[i].vars = EmptyMap
        /\ \A entry \in aliases(scopes) \cup functions(scopes) \cup arrays(scopes) :
               entry.index <= current
        /\ last.op = "new_scope" =>
               /\ current < Len(scopes)
               /\ scopes[current + 1].vars = EmptyMap
               /\ scopes[current + 1].namespace = last.namespace

\* pop_scope has left a namespace scope: its slot is inactive, keeps its flag
\* and holds nothing, and aliases() yields the alias of the global scope alone
C29_Witness ==
    /\ ~panicked
    /\ last.op = "pop_scope"
    /\ current = 0
    /\ Len(scopes) = 2
    /\ scopes[2].namespace
    /\ scopes[2].vars = EmptyMap
    /\ aliases(scopes) = {[index |-> 0, key |-> Name_x, val |-> Alias_a.val]}

====
